---- MODULE Spec2Model ----
(***************************************************************************)
(* A model of the cnomlite parser-combinator library (src/cnomlite.hpp)    *)
(* and of the tokenizer the CBASIC command loop builds from it             *)
(* (src/main.cpp, execute_line).                                           *)
(*                                                                         *)
(* A std::string that is parsed (an input, a remainder, the text a         *)
(* string_p expects) is a sequence of characters, each character a         *)
(* one-character string.  A std::string that is a failure message or the   *)
(* value of a parse is a TLA+ string.  A Parser<T> (a closure) is a record *)
(* naming the lambda it holds and the values the lambda captured;          *)
(* Apply(p, input) is Parser<T>::operator().                               *)
(***************************************************************************)
EXTENDS Integers, Sequences, FiniteSets, TLC

\* Longest input drawn exhaustively over Alphabet.
MaxLen == 3

\* Most passes of a many or sep_by loop followed; a loop that has collected
\* this many values is not followed further.
MaxIter == 8

\* The characters of the exhaustively drawn inputs.
Alphabet == {"1", "2", ",", " ", "a"}

\* std::isdigit / std::isspace in the "C" locale.
Digits == {"0", "1", "2", "3", "4", "5", "6", "7", "8", "9"}
Spaces == {" ", "\t", "\n", "\r", "\f"}

isdigit(c) == c \in Digits
isspace(c) == c \in Spaces

\* c - '0' for a decimal digit c.
DigitValue(c) ==
    CASE c = "0" -> 0 [] c = "1" -> 1 [] c = "2" -> 2 [] c = "3" -> 3
      [] c = "4" -> 4 [] c = "5" -> 5 [] c = "6" -> 6 [] c = "7" -> 7
      [] c = "8" -> 8 [] c = "9" -> 9

\* std::string(chars.begin(), chars.end()): the text of a character sequence.
RECURSIVE Str(_)
Str(chars) == IF chars = <<>> THEN "" ELSE chars[1] \o Str(Tail(chars))

\* input.substr(n): the characters after the first n.
substr(input, n) == SubSeq(input, n + 1, Len(input))

\* ParseSuccess<T>{value, remaining} and the std::string alternative of
\* ParseResult<T>.
ParseSuccess(value, remaining) ==
    [ok |-> TRUE, value |-> value, remaining |-> remaining]
ParseFailure(msg) == [ok |-> FALSE, msg |-> msg]

\* std::optional<T>: a present value, std::nullopt.
Present(v) == [present |-> TRUE, value |-> v]
nullopt == [present |-> FALSE]

-----------------------------------------------------------------------------
(* Basic parsers *)

any_char(input) ==
    IF input = <<>>
    THEN ParseFailure("Unexpected end of input")
    ELSE ParseSuccess(input[1], substr(input, 1))

\* The "found" part the one-character parsers put in their message.
Found(input) == IF input = <<>> THEN "EOF" ELSE input[1]

char_p(expected, input) ==
    IF input # <<>> /\ input[1] = expected
    THEN ParseSuccess(expected, substr(input, 1))
    ELSE ParseFailure("Expected '" \o expected \o "', found '"
                        \o Found(input) \o "'")

\* string_p keeping the matched prefix, not what follows it, as remainder.
string_p_keeps_prefix(expected, input) ==
    IF Len(input) >= Len(expected)
         /\ SubSeq(input, 1, Len(expected)) = expected
    THEN ParseSuccess(Str(expected), SubSeq(input, 1, Len(expected)))
    ELSE LET found == IF Len(input) >= Len(expected)
                      THEN SubSeq(input, 1, Len(expected)) ELSE input
         IN  ParseFailure("Expected \"" \o Str(expected) \o "\", found \""
                            \o Str(found) \o "\"")

string_p(expected, input) ==
    IF Len(input) >= Len(expected)
         /\ SubSeq(input, 1, Len(expected)) = expected
    THEN ParseSuccess(Str(expected), substr(input, Len(expected)))
    ELSE LET found == IF Len(input) >= Len(expected)
                      THEN SubSeq(input, 1, Len(expected)) ELSE input
         IN  ParseFailure("Expected \"" \o Str(expected) \o "\", found \""
                            \o Str(found) \o "\"")

digit(input) ==
    IF input # <<>> /\ isdigit(input[1])
    THEN ParseSuccess(input[1], substr(input, 1))
    ELSE ParseFailure("Expected digit, found '" \o Found(input) \o "'")

whitespace_char(input) ==
    IF input # <<>> /\ isspace(input[1])
    THEN ParseSuccess(input[1], substr(input, 1))
    ELSE ParseFailure("Expected whitespace, found '" \o Found(input) \o "'")

\* The word character of execute_line: any character that is not whitespace.
non_ws_char(input) ==
    IF input # <<>> /\ ~isspace(input[1])
    THEN ParseSuccess(input[1], substr(input, 1))
    ELSE ParseFailure("Expected non-whitespace character.")

\* A caller's parser built with make_parser that rejects every input with
\* the message it was given.
reject(msg, input) == ParseFailure(msg)

-----------------------------------------------------------------------------
(* Parser values: what each library function returns from make_parser *)

mk_any_char == [kind |-> "any_char"]
mk_char_p(expected) == [kind |-> "char_p", expected |-> expected]
mk_string_p(expected) == [kind |-> "string_p", text |-> expected]
mk_digit == [kind |-> "digit"]
mk_whitespace_char == [kind |-> "whitespace_char"]
mk_non_ws_char == [kind |-> "non_ws_char"]
mk_reject(msg) == [kind |-> "reject", msg |-> msg]
mk_map(p, f) == [kind |-> "map", p |-> p, f |-> f]
mk_bind(p, f) == [kind |-> "bind", p |-> p, fn |-> f]
mk_sequence(p1, p2) == [kind |-> "sequence", p1 |-> p1, p2 |-> p2]
mk_choice(parsers) == [kind |-> "choice", parsers |-> parsers]
mk_many(p) == [kind |-> "many", p |-> p]
mk_many1(p) == [kind |-> "many1", p |-> p]
mk_optional_p(p) == [kind |-> "optional_p", p |-> p]
mk_sep_by(element, separator) ==
    [kind |-> "sep_by", element |-> element, separator |-> separator]

\* The functions handed to map: the identity, the digit fold of integer_p,
\* the string constructor of execute_line, the projection of plus_p.
\* (The fold is on int; no input drawn here has the ten digits that
\* would overflow it.)
RECURSIVE FoldDigits(_, _)
FoldDigits(value, digits) ==
    IF digits = <<>> THEN value
    ELSE FoldDigits(value * 10 + DigitValue(digits[1]), Tail(digits))

CallMapFn(f, value) ==
    CASE f = "identity" -> value
      [] f = "digits_to_int" -> FoldDigits(0, value)
      [] f = "chars_to_string" -> Str(value)
      [] f = "second" -> value[2]

\* The functions handed to bind: skip_ws's lambda, which ignores the value
\* and returns the captured parser, and a caller's lambda that expects the
\* character just read once more.
fn_return(p) == [name |-> "return", p |-> p]
fn_same_char == [name |-> "same_char"]

CallBindFn(f, value) ==
    CASE f.name = "return" -> f.p
      [] f.name = "same_char" -> mk_char_p(value)

-----------------------------------------------------------------------------
(* Combinators *)

RECURSIVE Apply(_, _)

\* A local of the code is computed once, where it is declared, and read
\* afterwards: the operators below bind it as the one element of a set.

map(p, f, input) ==
    CHOOSE out \in
        {IF r.ok THEN ParseSuccess(CallMapFn(f, r.value), r.remaining)
         ELSE ParseFailure(r.msg) :
             r \in {Apply(p, input)}} : TRUE

bind(p, f, input) ==
    CHOOSE out \in
        {IF r.ok THEN Apply(CallBindFn(f, r.value), r.remaining)
         ELSE ParseFailure(r.msg) :
             r \in {Apply(p, input)}} : TRUE

\* sequence saying which of its parsers failed.
sequence_annotates(p1, p2, input) ==
    LET r1 == Apply(p1, input)
    IN  IF r1.ok
        THEN LET r2 == Apply(p2, r1.remaining)
             IN  IF r2.ok
                 THEN ParseSuccess(<<r1.value, r2.value>>, r2.remaining)
                 ELSE ParseFailure("second: " \o r2.msg)
        ELSE ParseFailure("first: " \o r1.msg)

sequence(p1, p2, input) ==
    LET r1 == Apply(p1, input)
    IN  IF r1.ok
        THEN LET r2 == Apply(p2, r1.remaining)
             IN  IF r2.ok
                 THEN ParseSuccess(<<r1.value, r2.value>>, r2.remaining)
                 ELSE ParseFailure(r2.msg)
        ELSE ParseFailure(r1.msg)

\* What choice returns once every branch has failed.
choice_exhausted(errors) ==
    LET trimmed == IF errors # "" THEN SubSeq(errors, 1, Len(errors) - 3)
                   ELSE errors
    IN  ParseFailure(IF trimmed = "" THEN "No alternatives matched"
                     ELSE trimmed)

\* The for loop of choice, about to try branch k.
RECURSIVE choice_loop(_, _, _, _)
choice_loop(parsers, k, errors, input) ==
    IF k > Len(parsers) THEN choice_exhausted(errors)
    ELSE LET r == Apply(parsers[k], input)
         IN  IF r.ok THEN r
             ELSE choice_loop(parsers, k + 1, errors \o r.msg \o " | ", input)

\* choice trying its branches last to first.
choice_backwards(parsers, input) ==
    choice_loop([k \in 1..Len(parsers) |-> parsers[Len(parsers) + 1 - k]],
                1, "", input)

choice(parsers, input) == choice_loop(parsers, 1, "", input)

\* many putting each value in front of the ones collected before it.
many_iter_prepends(p, results, remaining) ==
    LET r == Apply(p, remaining)
    IN  IF r.ok
        THEN [brk |-> FALSE, results |-> <<r.value>> \o results,
              remaining |-> r.remaining]
        ELSE [brk |-> TRUE, results |-> results, remaining |-> remaining]

\* One pass of the while loop of many: the loop's next state.
many_iter(p, results, remaining) ==
    CHOOSE out \in
        {IF r.ok
         THEN [brk |-> FALSE, results |-> Append(results, r.value),
               remaining |-> r.remaining]
         ELSE [brk |-> TRUE, results |-> results, remaining |-> remaining] :
             r \in {Apply(p, remaining)}} : TRUE

RECURSIVE many_loop(_, _, _)
many_loop(p, results, remaining) ==
    CHOOSE out \in
        {IF s.brk THEN ParseSuccess(s.results, s.remaining)
         ELSE many_loop(p, s.results, s.remaining) :
             s \in {many_iter(p, results, remaining)}} : TRUE

many(p, input) == many_loop(p, <<>>, input)

\* many1 asking for more than one occurrence.
many1_needs_two(p, input) ==
    LET r == many(p, input)
    IN  IF r.ok
        THEN IF Len(r.value) <= 1
             THEN ParseFailure("Expected at least one occurrence")
             ELSE r
        ELSE r

many1(p, input) ==
    CHOOSE out \in
        {IF r.ok
         THEN IF r.value = <<>>
              THEN ParseFailure("Expected at least one occurrence")
              ELSE r
         ELSE r :
             r \in {many(p, input)}} : TRUE

\* optional_p returning an empty remainder when p fails.
optional_p_drops_input(p, input) ==
    LET r == Apply(p, input)
    IN  IF r.ok THEN ParseSuccess(Present(r.value), r.remaining)
        ELSE ParseSuccess(nullopt, <<>>)

optional_p(p, input) ==
    LET r == Apply(p, input)
    IN  IF r.ok THEN ParseSuccess(Present(r.value), r.remaining)
        ELSE ParseSuccess(nullopt, input)

\* sep_by giving the separator's input back when no element follows it.
sep_by_iter_restores(element, separator, results, remaining) ==
    LET elem_r == Apply(element, remaining)
    IN  IF elem_r.ok
        THEN LET sep_r == Apply(separator, elem_r.remaining)
             IN  IF sep_r.ok /\ Apply(element, sep_r.remaining).ok
                 THEN [brk |-> FALSE,
                       results |-> Append(results, elem_r.value),
                       remaining |-> sep_r.remaining]
                 ELSE [brk |-> TRUE,
                       results |-> Append(results, elem_r.value),
                       remaining |-> elem_r.remaining]
        ELSE [brk |-> TRUE, results |-> results, remaining |-> remaining]

\* One pass of the while loop of sep_by: the loop's next state.
sep_by_iter(element, separator, results, remaining) ==
    CHOOSE out \in
        {IF elem_r.ok
         THEN CHOOSE step \in
                  {IF sep_r.ok
                   THEN [brk |-> FALSE,
                         results |-> Append(results, elem_r.value),
                         remaining |-> sep_r.remaining]
                   ELSE [brk |-> TRUE,
                         results |-> Append(results, elem_r.value),
                         remaining |-> elem_r.remaining] :
                       sep_r \in {Apply(separator, elem_r.remaining)}} : TRUE
         ELSE [brk |-> TRUE, results |-> results, remaining |-> remaining] :
             elem_r \in {Apply(element, remaining)}} : TRUE

RECURSIVE sep_by_loop(_, _, _, _)
sep_by_loop(element, separator, results, remaining) ==
    CHOOSE out \in
        {IF s.brk THEN ParseSuccess(s.results, s.remaining)
         ELSE sep_by_loop(element, separator, s.results, s.remaining) :
             s \in {sep_by_iter(element, separator, results, remaining)}} : TRUE

sep_by(element, separator, input) ==
    sep_by_loop(element, separator, <<>>, input)

\* Parser<T>::operator(): run the lambda the parser holds.
Apply(p, input) ==
    CASE p.kind = "any_char" -> any_char(input)
      [] p.kind = "char_p" -> char_p(p.expected, input)
      [] p.kind = "string_p" -> string_p(p.text, input)
      [] p.kind = "digit" -> digit(input)
      [] p.kind = "whitespace_char" -> whitespace_char(input)
      [] p.kind = "non_ws_char" -> non_ws_char(input)
      [] p.kind = "reject" -> reject(p.msg, input)
      [] p.kind = "map" -> map(p.p, p.f, input)
      [] p.kind = "bind" -> bind(p.p, p.fn, input)
      [] p.kind = "sequence" -> sequence(p.p1, p.p2, input)
      [] p.kind = "choice" -> choice(p.parsers, input)
      [] p.kind = "many" -> many(p.p, input)
      [] p.kind = "many1" -> many1(p.p, input)
      [] p.kind = "optional_p" -> optional_p(p.p, input)
      [] p.kind = "sep_by" -> sep_by(p.element, p.separator, input)

-----------------------------------------------------------------------------
(* Utility and higher-level parsers *)

whitespace == mk_many(mk_whitespace_char)

skip_ws(p) == mk_bind(whitespace, fn_return(p))

integer_p == mk_map(mk_many1(mk_digit), "digits_to_int")

\* The example of cnomlite.hpp: comma-separated integers.
comma == skip_ws(mk_char_p(","))
int_list == mk_sep_by(integer_p, comma)

\* The example of cnomlite.hpp: '+' and an integer, whitespace before each.
plus_p == mk_map(mk_sequence(skip_ws(mk_char_p("+")), skip_ws(integer_p)),
                 "second")

\* execute_line: a word, and a line split into words.
word_parser == mk_many1(mk_non_ws_char)
split_parser == mk_sep_by(mk_map(word_parser, "chars_to_string"), whitespace)

-----------------------------------------------------------------------------
(* The parsers and inputs explored *)

\* The inputs of the examples of cnomlite.hpp and of the specification.
Text_10_20_30_40 ==
    <<"1", "0", ",", " ", "2", "0", ",", " ", "3", "0", ",", "4", "0">>
Text_10_20_comma == <<"1", "0", ",", "2", "0", ",">>
Text_123_plus_456 == <<"1", "2", "3", "+", "4", "5", "6">>
ExampleInputs == {Text_10_20_30_40, Text_10_20_comma, Text_123_plus_456}

Inputs ==
    UNION {[1..n -> Alphabet] : n \in 0..MaxLen} \cup ExampleInputs

digit_comma == mk_sequence(mk_digit, mk_char_p(","))

PrimitiveParsers ==
    {mk_any_char, mk_char_p(","), mk_char_p("a"), mk_digit,
     mk_whitespace_char, mk_non_ws_char,
     mk_string_p(<<"1", ",">>), mk_string_p(<<"a">>), mk_string_p(<<>>),
     mk_reject(""), mk_reject("custom")}

MapParsers ==
    {mk_map(mk_digit, "identity"), integer_p, plus_p,
     mk_map(digit_comma, "second"),
     mk_map(word_parser, "chars_to_string")}

BindParsers ==
    {mk_bind(mk_any_char, fn_same_char), comma, skip_ws(integer_p),
     mk_bind(mk_digit, fn_return(mk_char_p("a")))}

SequenceParsers ==
    {digit_comma, mk_sequence(integer_p, comma),
     mk_sequence(mk_many(mk_digit), mk_char_p("a")),
     mk_sequence(integer_p, plus_p)}

\* Lists of parsers of one result type, as choice takes them.
ChoiceLists ==
    {<<>>,
     <<mk_char_p("a")>>,
     <<mk_char_p("a"), mk_digit>>,
     <<mk_digit, mk_any_char>>,
     <<mk_char_p("a"), mk_char_p(","), mk_whitespace_char>>,
     <<mk_string_p(<<"1">>), mk_string_p(<<"1", ",">>)>>,
     <<mk_string_p(<<"1", ",">>), mk_string_p(<<"1">>)>>,
     <<mk_reject("")>>,
     <<mk_reject(""), mk_reject("")>>,
     <<mk_char_p("a"), mk_reject(""), mk_digit>>,
     <<mk_bind(mk_digit, fn_return(mk_char_p("a"))),
       mk_bind(mk_any_char, fn_same_char)>>}

ChoiceParsers == {mk_choice(ps) : ps \in ChoiceLists}

\* Parsers that consume input whenever they succeed, as elements to repeat.
ElementParsers ==
    {mk_digit, mk_whitespace_char, mk_char_p("a"), digit_comma, integer_p,
     mk_non_ws_char, mk_string_p(<<"1", ",">>),
     mk_choice(<<mk_char_p("a"), mk_digit>>),
     mk_bind(mk_any_char, fn_same_char), mk_reject("custom")}

ManyParsers == {mk_many(p) : p \in ElementParsers}
Many1Parsers == {mk_many1(p) : p \in ElementParsers}
OptionalParsers ==
    {mk_optional_p(p) : p \in ElementParsers \cup {mk_many1(mk_digit)}}

SepByParsers ==
    {int_list, split_parser,
     mk_sep_by(mk_digit, mk_char_p(",")),
     mk_sep_by(mk_digit, whitespace),
     mk_sep_by(mk_any_char, mk_whitespace_char),
     mk_sep_by(integer_p, mk_string_p(<<",", " ">>)),
     mk_sep_by(mk_reject("custom"), mk_char_p(","))}

\* Elements that can succeed without consuming input.
ZeroWidthElements ==
    {mk_optional_p(mk_digit), mk_string_p(<<>>), whitespace}

\* Loops over such elements.  They are applied directly only, never as
\* part of another parser.
ZeroWidthLoops ==
    {mk_many(p) : p \in ZeroWidthElements}
      \cup {mk_sep_by(mk_optional_p(mk_digit), whitespace),
            mk_sep_by(mk_optional_p(mk_digit), mk_char_p(",")),
            mk_sep_by(mk_string_p(<<>>), mk_string_p(<<>>))}

Parsers ==
    PrimitiveParsers \cup MapParsers \cup BindParsers \cup SequenceParsers
      \cup ChoiceParsers \cup ManyParsers \cup Many1Parsers
      \cup OptionalParsers \cup SepByParsers \cup ZeroWidthLoops

-----------------------------------------------------------------------------
(* One application of a parser to an input *)

VARIABLES
    parser,     \* the parser being applied
    input,      \* the input it was given
    pc,         \* "idle", "call", "many_loop", "sep_by_loop" or "done"
    results,    \* the vector a running many or sep_by has collected
    remaining,  \* the remaining input of a running many or sep_by
    result      \* the ParseResult returned, once pc = "done"

vars == <<parser, input, pc, results, remaining, result>>

\* No result yet.
Pending == [pending |-> TRUE]

Init ==
    /\ parser \in Parsers
    /\ input \in Inputs
    /\ pc = "call"
    /\ results = <<>>
    /\ remaining = <<>>
    /\ result = Pending

\* The call returns r.
Return(r) ==
    /\ result' = r
    /\ pc' = "done"
    /\ UNCHANGED <<parser, input, results, remaining>>

CallPrimitive ==
    /\ pc = "call"
    /\ parser.kind \in {"any_char", "char_p", "string_p", "digit",
                        "whitespace_char", "non_ws_char", "reject"}
    /\ Return(Apply(parser, input))

CallMap ==
    /\ pc = "call"
    /\ parser.kind = "map"
    /\ Return(map(parser.p, parser.f, input))

CallBind ==
    /\ pc = "call"
    /\ parser.kind = "bind"
    /\ Return(bind(parser.p, parser.fn, input))

CallSequence ==
    /\ pc = "call"
    /\ parser.kind = "sequence"
    /\ Return(sequence(parser.p1, parser.p2, input))

CallChoice ==
    /\ pc = "call"
    /\ parser.kind = "choice"
    /\ Return(choice(parser.parsers, input))

CallMany1 ==
    /\ pc = "call"
    /\ parser.kind = "many1"
    /\ Return(many1(parser.p, input))

CallOptional ==
    /\ pc = "call"
    /\ parser.kind = "optional_p"
    /\ Return(optional_p(parser.p, input))

\* many: the locals are set up and the loop is entered.
ManyEnter ==
    /\ pc = "call"
    /\ parser.kind = "many"
    /\ results' = <<>>
    /\ remaining' = input
    /\ pc' = "many_loop"
    /\ UNCHANGED <<parser, input, result>>

\* many: one pass of the loop; on break the collected vector is returned.
\* many: a pass that advances the vector but leaves remaining as it was.
ManyIter_keeps_remaining ==
    /\ pc = "many_loop"
    /\ Len(results) < MaxIter
    /\ \E s \in {many_iter(parser.p, results, remaining)} :
           /\ results' = s.results
           /\ remaining' = remaining
           /\ IF s.brk
              THEN /\ result' = ParseSuccess(s.results, remaining)
                   /\ pc' = "done"
              ELSE UNCHANGED <<result, pc>>
    /\ UNCHANGED <<parser, input>>

ManyIter ==
    /\ pc = "many_loop"
    /\ Len(results) < MaxIter
    /\ \E s \in {many_iter(parser.p, results, remaining)} :
           /\ results' = s.results
           /\ remaining' = s.remaining
           /\ IF s.brk
              THEN /\ result' = ParseSuccess(s.results, s.remaining)
                   /\ pc' = "done"
              ELSE UNCHANGED <<result, pc>>
    /\ UNCHANGED <<parser, input>>

\* sep_by: the locals are set up and the loop is entered.
SepByEnter ==
    /\ pc = "call"
    /\ parser.kind = "sep_by"
    /\ results' = <<>>
    /\ remaining' = input
    /\ pc' = "sep_by_loop"
    /\ UNCHANGED <<parser, input, result>>

\* sep_by: one pass of the loop (element, then separator); on break the
\* collected vector is returned.
SepByIter ==
    /\ pc = "sep_by_loop"
    /\ Len(results) < MaxIter
    /\ \E s \in {sep_by_iter(parser.element, parser.separator,
                               results, remaining)} :
           /\ results' = s.results
           /\ remaining' = s.remaining
           /\ IF s.brk
              THEN /\ result' = ParseSuccess(s.results, s.remaining)
                   /\ pc' = "done"
              ELSE UNCHANGED <<result, pc>>
    /\ UNCHANGED <<parser, input>>

Next ==
    \/ CallPrimitive
    \/ CallMap
    \/ CallBind
    \/ CallSequence
    \/ CallChoice
    \/ CallMany1
    \/ CallOptional
    \/ ManyEnter
    \/ ManyIter
    \/ SepByEnter
    \/ SepByIter

Spec == Init /\ [][Next]_vars

\* The applications of many and sep_by alone, from the state in which no
\* parser has been applied yet.
InitLoops ==
    /\ pc = "idle"
    /\ parser = <<>>
    /\ input = <<>>
    /\ results = <<>>
    /\ remaining = <<>>
    /\ result = Pending

\* A many or sep_by parser is applied to an input.
CallLoop ==
    /\ pc = "idle"
    /\ \E p \in ManyParsers \cup SepByParsers \cup ZeroWidthLoops,
          i \in Inputs :
          /\ parser' = p
          /\ input' = i
    /\ pc' = "call"
    /\ UNCHANGED <<results, remaining, result>>

NextLoops ==
    \/ CallLoop
    \/ ManyEnter
    \/ ManyIter
    \/ SepByEnter
    \/ SepByIter

\* A call, once made, keeps running: the code is one sequential thread.
FairSpec == InitLoops /\ [][NextLoops]_vars /\ WF_vars(NextLoops)

\* The call has returned.
Done == pc = "done"
Succeeded == Done /\ result.ok
Failed == Done /\ ~result.ok

-----------------------------------------------------------------------------
(* Monotonic consumption *)

\* r is what is left of i after some prefix of it.
IsSuffix(r, i) == \E n \in 0..Len(i) : r = substr(i, n)

\* C1: whenever a parser built from the primitives and combinators succeeds,
\* the remainder it returns is a suffix of the input it was given.
C1_RemainderIsSuffix ==
    /\ Succeeded => IsSuffix(result.remaining, input)
    /\ pc \in {"many_loop", "sep_by_loop"} => IsSuffix(remaining, input)

\* A success that consumed part of the input and left part of it.
C1_Witness ==
    /\ Succeeded
    /\ result.remaining # input
    /\ result.remaining # <<>>

-----------------------------------------------------------------------------
(* Comma-separated integers *)

\* The fields of a text: the runs of characters between its commas.
RECURSIVE Fields(_, _)
Fields(field, s) ==
    IF s = <<>> THEN <<field>>
    ELSE IF s[1] = "," THEN <<field>> \o Fields(<<>>, Tail(s))
    ELSE Fields(Append(field, s[1]), Tail(s))

\* A field without the whitespace around it.
RECURSIVE Trim(_)
Trim(s) ==
    IF s = <<>> THEN s
    ELSE IF isspace(s[1]) THEN Trim(Tail(s))
    ELSE IF isspace(s[Len(s)]) THEN Trim(SubSeq(s, 1, Len(s) - 1))
    ELSE s

IsDecimal(s) == s # <<>> /\ \A k \in 1..Len(s) : isdigit(s[k])

\* The number a decimal numeral denotes.
RECURSIVE Decimal(_)
Decimal(s) ==
    IF s = <<>> THEN 0
    ELSE 10 * Decimal(SubSeq(s, 1, Len(s) - 1)) + DigitValue(s[Len(s)])

\* Decimal integers separated by commas, whitespace allowed before and
\* after each comma (and nowhere else).
IsIntList(s) ==
    /\ s # <<>>
    /\ isdigit(s[1])
    /\ isdigit(s[Len(s)])
    /\ \A k \in 1..Len(Fields(<<>>, s)) : IsDecimal(Trim(Fields(<<>>, s)[k]))

IntListValues(s) ==
    [k \in 1..Len(Fields(<<>>, s)) |-> Decimal(Trim(Fields(<<>>, s)[k]))]

\* C2: sep_by(integer_p, skip_ws(char_p(','))) applied to a list of decimal
\* integers separated by commas, with whitespace before or after the commas,
\* succeeds with all the integers in order and an empty remainder; on
\* "10, 20, 30,40" it returns [10, 20, 30, 40] and "".
C2_IntListParsedWhole ==
    (Done /\ parser = int_list /\ IsIntList(input)) =>
        result = ParseSuccess(IntListValues(input), <<>>)

-----------------------------------------------------------------------------
(* The failure message of choice *)

\* The messages of the branches, in list order.
BranchMessages(parsers, i) ==
    [k \in 1..Len(parsers) |-> Apply(parsers[k], i).msg]

\* Messages joined by " | ".
RECURSIVE Joined(_)
Joined(msgs) ==
    IF Len(msgs) = 1 THEN msgs[1]
    ELSE msgs[1] \o " | " \o Joined(Tail(msgs))

AllBranchesFail(parsers, i) ==
    \A k \in 1..Len(parsers) : ~Apply(parsers[k], i).ok

\* C3: when every branch of a non-empty choice fails, choice fails with the
\* branches' messages in list order joined by " | ", no trailing separator;
\* the empty choice fails with "No alternatives matched".
C3_ChoiceJoinsMessages ==
    (Done /\ parser.kind = "choice"
          /\ AllBranchesFail(parser.parsers, input)) =>
        /\ ~result.ok
        /\ result.msg =
             IF parser.parsers = <<>> THEN "No alternatives matched"
             ELSE Joined(BranchMessages(parser.parsers, input))

-----------------------------------------------------------------------------
(* Failure messages of map, bind, sequence and many1 *)

\* The message of the first sub-parser of a combinator to fail on input i.
FirstFailureMessage(p, i) ==
    CASE p.kind = "map" -> Apply(p.p, i).msg
      [] p.kind = "bind" ->
           LET r == Apply(p.p, i)
           IN  IF r.ok THEN Apply(CallBindFn(p.fn, r.value), r.remaining).msg
               ELSE r.msg
      [] p.kind = "sequence" ->
           LET r1 == Apply(p.p1, i)
           IN  IF r1.ok THEN Apply(p.p2, r1.remaining).msg ELSE r1.msg
      [] p.kind = "many1" -> Apply(p.p, i).msg

\* C4, as stated: a failure of map, bind, sequence or many1 carries exactly
\* the message of the first sub-parser that failed.
C4_FirstFailureUnchanged ==
    (Failed /\ parser.kind \in {"map", "bind", "sequence", "many1"}) =>
        result.msg = FirstFailureMessage(parser, input)

\* C4, amended: a failure of map, bind or sequence carries exactly the
\* message of the first sub-parser that failed; a failure of many1 carries
\* "Expected at least one occurrence" in place of the sub-parser's message.
C4_FailureMessages ==
    /\ (Failed /\ parser.kind \in {"map", "bind", "sequence"}) =>
           result.msg = FirstFailureMessage(parser, input)
    /\ (Failed /\ parser.kind = "many1") =>
           /\ result.msg = "Expected at least one occurrence"
           /\ ~Apply(parser.p, input).ok

\* A sequence whose first parser succeeded and whose second failed.
C4_Witness ==
    /\ Failed
    /\ parser.kind = "sequence"
    /\ Apply(parser.p1, input).ok
    /\ Apply(parser.p1, input).remaining # input

-----------------------------------------------------------------------------
(* The tokenizer of the command loop *)

\* The length of the run of non-whitespace characters a text starts with.
RECURSIVE RunLength(_)
RunLength(s) ==
    IF s = <<>> \/ isspace(s[1]) THEN 0 ELSE 1 + RunLength(Tail(s))

\* The maximal runs of non-whitespace characters of a line, in order.
RECURSIVE Words(_)
Words(s) ==
    IF s = <<>> THEN <<>>
    ELSE IF isspace(s[1]) THEN Words(Tail(s))
    ELSE <<Str(SubSeq(s, 1, RunLength(s)))>> \o Words(substr(s, RunLength(s)))

\* C5: the tokenizer of execute_line, applied to any line, succeeds with
\* exactly the line's maximal runs of non-whitespace characters, in order.
C5_TokenizesWholeLine ==
    (Done /\ parser = split_parser) =>
        /\ result.ok
        /\ result.value = Words(input)

-----------------------------------------------------------------------------
(* sep_by *)

\* What a separated list is, read off the text front to back: no element,
\* or an element alone, or an element, a separator and a separated list.
RECURSIVE SeparatedList(_, _, _)
SeparatedList(element, separator, i) ==
    LET e == Apply(element, i)
    IN  IF ~e.ok THEN [value |-> <<>>, remaining |-> i]
        ELSE LET s == Apply(separator, e.remaining)
             IN  IF ~s.ok THEN [value |-> <<e.value>>,
                                remaining |-> e.remaining]
                 ELSE LET rest == SeparatedList(element, separator,
                                                s.remaining)
                      IN  [value |-> <<e.value>> \o rest.value,
                           remaining |-> rest.remaining]

\* C6: sep_by never fails; it returns the values of the elements parsed, in
\* order; it goes on after an element only if the separator then succeeds;
\* when the separator fails the remainder is the last element's, and when
\* the element after a separator fails the remainder is that separator's.
\* On "10,20," the integer list is [10, 20] with nothing remaining.
C6_SepByResult ==
    /\ (Done /\ parser.kind = "sep_by") =>
           LET l == SeparatedList(parser.element, parser.separator, input)
           IN  result = ParseSuccess(l.value, l.remaining)
    /\ (Done /\ parser = int_list /\ input = Text_10_20_comma) =>
           result = ParseSuccess(<<10, 20>>, <<>>)

\* The last separator parsed was followed by no element.
DanglingSeparator ==
    /\ ~Apply(parser.element, result.remaining).ok
    /\ \E n \in 1..Len(input) :
          LET e == Apply(parser.element, substr(input, n - 1))
          IN  /\ e.ok
              /\ Apply(parser.separator, e.remaining).ok
              /\ Apply(parser.separator, e.remaining).remaining
                   = result.remaining
              /\ e.remaining # result.remaining

\* A list of two elements that ends in a separator.
C6_Witness ==
    /\ Done
    /\ parser.kind = "sep_by"
    /\ Len(result.value) = 2
    /\ DanglingSeparator

-----------------------------------------------------------------------------
(* many and many1 *)

\* What a repetition is, read off the text front to back: nothing, or one
\* occurrence and a repetition.
RECURSIVE Repetition(_, _)
Repetition(p, i) ==
    LET r == Apply(p, i)
    IN  IF ~r.ok THEN [value |-> <<>>, remaining |-> i]
        ELSE LET rest == Repetition(p, r.remaining)
             IN  [value |-> <<r.value>> \o rest.value,
                  remaining |-> rest.remaining]

\* C7: many(p)(i) is a success; its value is the values of the consecutive
\* successful applications of p, in order, and its remainder is the input
\* on which p first failed, i itself when p fails at once.
C7_ManyResult ==
    (Done /\ parser.kind = "many") =>
        /\ result = ParseSuccess(Repetition(parser.p, input).value,
                                 Repetition(parser.p, input).remaining)
        /\ ~Apply(parser.p, result.remaining).ok
        /\ ~Apply(parser.p, input).ok => result = ParseSuccess(<<>>, input)

\* A repetition of two or more that stopped before the end of the input.
C7_Witness ==
    /\ Done
    /\ parser.kind = "many"
    /\ Len(result.value) >= 2
    /\ result.value[1] # result.value[2]
    /\ result.remaining # <<>>

\* C8: many1(p)(i) fails with "Expected at least one occurrence" exactly
\* when p fails on i; otherwise it is the success of many(p)(i), a single
\* value and p's remainder when p matches exactly once.
C8_Many1Result ==
    (Done /\ parser.kind = "many1") =>
        LET r == Apply(parser.p, input)
        IN  /\ ~r.ok => result =
                   ParseFailure("Expected at least one occurrence")
            /\ r.ok => result =
                   ParseSuccess(Repetition(parser.p, input).value,
                                Repetition(parser.p, input).remaining)
            /\ (r.ok /\ ~Apply(parser.p, r.remaining).ok) =>
                   result = ParseSuccess(<<r.value>>, r.remaining)

\* p matched exactly once and left input.
C8_Witness ==
    /\ Succeeded
    /\ parser.kind = "many1"
    /\ Len(result.value) = 1
    /\ result.remaining # <<>>

-----------------------------------------------------------------------------
(* optional_p *)

\* C9: optional_p(p)(i) is a success: p's value, present, and p's remainder
\* when p(i) succeeds; an absent value and i itself when p(i) fails.
C9_OptionalResult ==
    (Done /\ parser.kind = "optional_p") =>
        LET r == Apply(parser.p, input)
        IN  /\ result.ok
            /\ r.ok => /\ result.value = Present(r.value)
                       /\ result.remaining = r.remaining
            /\ ~r.ok => /\ result.value = nullopt
                        /\ result.remaining = input

\* p failed on an input that is not empty.
C9_Witness ==
    /\ Done
    /\ parser.kind = "optional_p"
    /\ ~Apply(parser.p, input).ok
    /\ input # <<>>
    /\ result.remaining = input

-----------------------------------------------------------------------------
(* The order of the branches of choice *)

\* Branch k is the first branch that succeeds on i.
FirstToSucceed(parsers, k, i) ==
    /\ Apply(parsers[k], i).ok
    /\ \A j \in 1..(k - 1) : ~Apply(parsers[j], i).ok

\* C10: choice gives every branch the original input and returns the result
\* of the first branch, in list order, that succeeds on it.
C10_ChoiceFirstSuccess ==
    (Done /\ parser.kind = "choice") =>
        \A k \in 1..Len(parser.parsers) :
            FirstToSucceed(parser.parsers, k, input) =>
                result = Apply(parser.parsers[k], input)

\* The first two branches both succeed, with different results.
C10_Witness ==
    /\ Done
    /\ parser.kind = "choice"
    /\ Len(parser.parsers) >= 2
    /\ Apply(parser.parsers[1], input).ok
    /\ Apply(parser.parsers[2], input).ok
    /\ Apply(parser.parsers[1], input) # Apply(parser.parsers[2], input)
    /\ result = Apply(parser.parsers[1], input)

-----------------------------------------------------------------------------
(* Termination of the loops *)

\* What can be left of input i.
Suffixes(i) == {substr(i, n) : n \in 0..Len(i)}

\* Every success of p on what can be left of i returns a strictly shorter
\* remainder.
Consumes(p, i) ==
    \A s \in Suffixes(i) :
        Apply(p, s).ok => Len(Apply(p, s).remaining) < Len(s)

\* Every pass of the running loop that does not break, on what can be left
\* of the input, leaves strictly less than it was given.
PassesConsume ==
    \A s \in Suffixes(input) :
        LET it == IF parser.kind = "many"
                  THEN many_iter(parser.p, <<>>, s)
                  ELSE sep_by_iter(parser.element, parser.separator, <<>>, s)
        IN  ~it.brk => Len(it.remaining) < Len(s)

InManyLoop == pc = "many_loop"
InSepByLoop == pc = "sep_by_loop"

\* C11: on every finite input the loop of many(p) ends when every success
\* of p returns a strictly shorter remainder, and the loop of
\* sep_by(element, separator) ends when every success of element does, also
\* when the separator succeeds without consuming; a loop can only fail to
\* end when one of its passes succeeds without consuming input.
C11_LoopsTerminate ==
    /\ (InManyLoop /\ Consumes(parser.p, input)) ~> Done
    /\ (InSepByLoop /\ Consumes(parser.element, input)) ~> Done
    /\ ((InManyLoop \/ InSepByLoop) /\ PassesConsume) ~> Done

\* A sep_by that returned two or more elements and whose separator
\* succeeded without consuming anything between two of them.
C11_Witness ==
    /\ Done
    /\ parser.kind = "sep_by"
    /\ Consumes(parser.element, input)
    /\ Len(result.value) >= 2
    /\ \E s \in Suffixes(input) :
          /\ Apply(parser.separator, s).ok
          /\ Apply(parser.separator, s).remaining = s
          /\ Apply(parser.element, s).ok
          /\ Len(s) < Len(input)

\* A loop whose passes succeed without consuming and that is still running
\* after MaxIter passes.
StillLooping ==
    /\ InManyLoop \/ InSepByLoop
    /\ Len(results) = MaxIter
    /\ ~PassesConsume

====
